---- MODULE Spec2Model ----
(***************************************************************************)
(* Model of src/email.c: the EmailAddress type for PostgreSQL.             *)
(*   - email_in / email_out (text -> record -> text), with the scanner     *)
(*     (getLocalStringEnd, getDomainStringEnd, isValidCharacter) and the   *)
(*     validator (checkLocalIsValid, regexMatch);                          *)
(*   - the comparator (email_cmp_internal, domain_cmp_internal) and the    *)
(*     SQL-callable predicates built on it.                                *)
(* C strings are sequences of byte values without the terminating NUL;    *)
(* C index i of a string is index i + 1 of the sequence.                   *)
(***************************************************************************)
EXTENDS Integers, Sequences, FiniteSets, TLC

VARIABLES
    vlaSlack,   \* build: extra bytes the compiler adds when sizing a VLA
    junk,       \* value of a byte the program never wrote
    pc,         \* position of the email_in / email_out call sequence
    str,        \* PG_GETARG_CSTRING(0) of email_in
    result,     \* the EmailAddress email_in returned (fields read as C strings)
    written,    \* bytes strcpy stored into result->local and result->domain
    errtext,    \* the %s argument of the ereport(ERROR) raised, if any
    validated,  \* the strings handed to checkLocalIsValid by the call
    out,        \* the cstring email_out returned
    ch,         \* argument of an isValidCharacter call
    verdict,    \* what that call returned
    a, b, c,    \* EmailAddress arguments of the comparator functions
    ret         \* the last value a comparator function returned

vars == <<vlaSlack, junk, pc, str, result, written, errtext, validated, out,
          ch, verdict, a, b, c, ret>>

parseVars == <<vlaSlack, junk, pc, str, result, written, errtext, validated, out>>
charVars == <<ch, verdict>>
cmpVars == <<a, b, c, ret>>

----------------------------------------------------------------------------
(* Program constants and bounds *)

MAX_CHARS == 128

\* longest input string drawn letter by letter from Sigma
MaxLen == 4

AT == 64
NUL == 0

\* ' ', '.', '1', '@', 'A', 'b'
Sigma == {32, 46, 49, AT, 65, 98}

\* the values a C char can take, signed or unsigned
CharValues == -128 .. 255

\* contents of memory the program did not write: a NUL or the letter 'q'
JunkBytes == {NUL, 113}

\* sizing of a VLA of n bytes: (n + 15 + slack) rounded down to 16
VlaSlacks == {0, 15}

Max(x, y) == IF x >= y THEN x ELSE y

Rep(byte, n) == [k \in 1 .. n |-> byte]

RECURSIVE StringsUpTo(_)
StringsUpTo(n) ==
    IF n = 0 THEN {<<>>}
    ELSE LET shorter == StringsUpTo(n - 1)
         IN shorter \cup {Append(s, x) : s \in {t \in shorter : Len(t) = n - 1}, x \in Sigma}

\* inputs at the capacity of a field and around the 16-byte VLA rounding
LongLens == {1, 15, MAX_CHARS - 1, MAX_CHARS}

LongInputs == {Rep(65, n) \o <<AT>> \o Rep(98, m) : n \in LongLens, m \in LongLens}

Inputs == StringsUpTo(MaxLen) \cup LongInputs

----------------------------------------------------------------------------
(* Character classifier *)

\* mutant: the last range check written with >= rejects 'z'
isValidCharacter_ge(x) ==
    IF x < 48 /\ x # 46 /\ x # 45 THEN FALSE
    ELSE IF x > 57 /\ x < 64 THEN FALSE
    ELSE IF x > 90 /\ x < 97 THEN FALSE
    ELSE IF x >= 122 THEN FALSE
    ELSE TRUE

isValidCharacter(x) ==
    IF x < 48 /\ x # 46 /\ x # 45 THEN FALSE
    ELSE IF x > 57 /\ x < 64 THEN FALSE
    ELSE IF x > 90 /\ x < 97 THEN FALSE
    ELSE IF x > 122 THEN FALSE
    ELSE TRUE

----------------------------------------------------------------------------
(* Scanner *)

Min(S) == CHOOSE k \in S : \A j \in S : k <= j

\* the for loop of getLocalStringEnd: it runs on until the first index whose
\* character is invalid (break with error) or is '@' (break with error at
\* index 0, otherwise i++ and the loop condition c != '@' ends it); yields
\* the loop's final i and c and whether it set error
LocalLoop(s, len) ==
    LET stops == {k \in 0 .. len - 1 : ~isValidCharacter(s[k + 1]) \/ s[k + 1] = AT}
    IN IF stops = {}
       THEN [i |-> len, c |-> IF len = 0 THEN NUL ELSE s[len], error |-> FALSE]
       ELSE LET k == Min(stops)
                x == s[k + 1]
            IN IF ~isValidCharacter(x) THEN [i |-> k, c |-> x, error |-> TRUE]
               ELSE IF k = 0 /\ x = AT THEN [i |-> k, c |-> x, error |-> TRUE]
               ELSE [i |-> k + 1, c |-> x, error |-> FALSE]

getLocalStringEnd(s, len) ==
    LET l == LocalLoop(s, len)
        error == l.error \/ (l.c = AT /\ l.i >= len)
    IN IF ~error THEN l.i ELSE 0

\* the for loop of getDomainStringEnd from index start: it breaks with error
\* at the first index whose character is invalid or is '@', and otherwise
\* ends with i = len (or i = start when start >= len)
DomainLoop(s, len, start) ==
    LET stops == {k \in start .. len - 1 : ~isValidCharacter(s[k + 1]) \/ s[k + 1] = AT}
    IN IF stops = {}
       THEN [i |-> Max(start, len), error |-> FALSE]
       ELSE [i |-> Min(stops), error |-> TRUE]

getDomainStringEnd(start, s, len) ==
    LET l == DomainLoop(s, len, start)
    IN IF ~l.error THEN l.i ELSE 0

----------------------------------------------------------------------------
(* Validator *)

IsLetter(x) == (65 <= x /\ x <= 90) \/ (97 <= x /\ x <= 122)
IsDigit(x) == 48 <= x /\ x <= 57

\* "\b" in a C string literal is the backspace character
BS == 8

PatInitial == "^[A-Z]"
PatWord == "<BS>[A-Z]+[A-Z0-9]*<BS>"

\* regcomp(REG_EXTENDED|REG_ICASE): both patterns are well-formed
regcomp(pattern) == 0

\* mutant: the patterns compiled without REG_ICASE
regexec_case(pattern, s) ==
    IF pattern = PatInitial
    THEN IF Len(s) >= 1 /\ 65 <= s[1] /\ s[1] <= 90 THEN 0 ELSE 1
    ELSE 1

\* regexec: 0 on a match, REG_NOMATCH (1) otherwise; letters match in either case
regexec(pattern, s) ==
    IF pattern = PatInitial
    THEN IF Len(s) >= 1 /\ IsLetter(s[1]) THEN 0 ELSE 1
    ELSE IF \E p \in 1 .. Len(s) : \E q \in (p + 2) .. Len(s) :
               /\ s[p] = BS /\ s[q] = BS
               /\ IsLetter(s[p + 1])
               /\ \A k \in (p + 1) .. (q - 1) : IsLetter(s[k]) \/ IsDigit(s[k])
         THEN 0 ELSE 1

regexMatch(s, pattern) ==
    IF regcomp(pattern) # 0 THEN -1
    ELSE IF regexec(pattern, s) = 0 THEN 1 ELSE 0

\* the value of valid when checkLocalIsValid reaches its if (!valid)
checkLocalIsValid(local) ==
    LET v1 == IF regexMatch(local, PatInitial) = 0 THEN FALSE ELSE TRUE
    IN IF regexMatch(local, PatWord) # 0 THEN FALSE ELSE v1

----------------------------------------------------------------------------
(* Memory: a region is a function from offsets 0 .. n-1 to byte values *)

\* strlen of the C string that starts at offset p
strlen(mem, p) ==
    LET nuls == {k \in DOMAIN mem : k >= p /\ mem[k] = NUL}
    IN (CHOOSE k \in nuls : \A j \in nuls : k <= j) - p

\* the C string that starts at offset p, as a "%s" or strcpy reads it
CStr(mem, p) == [k \in 1 .. strlen(mem, p) |-> mem[p + k - 1]]

\* strcpy(&mem[dst], s): the bytes of s and the terminator
strcpy(mem, dst, s) ==
    [k \in DOMAIN mem |->
        IF dst <= k /\ k < dst + Len(s) THEN s[k - dst + 1]
        ELSE IF k = dst + Len(s) THEN NUL
        ELSE mem[k]]

\* str[j] for the reads email_in makes: the string, its terminator, and
\* past it whatever follows the argument in memory
SrcByte(s, j, jk) ==
    IF j < Len(s) THEN s[j + 1] ELSE IF j = Len(s) THEN NUL ELSE jk

\* bytes of stack the compiler reserves for "char v[n]": n is rounded to a
\* multiple of 16, after adding slack bytes in an unoptimised build; a
\* size that is not positive is undefined and is sized by the same sum
VlaReserve(n, slack) == ((n + 15 + slack) \div 16) * 16

----------------------------------------------------------------------------
(* email_in *)

NoRecord == [local |-> <<>>, domain |-> <<>>]
NoWritten == [local |-> 0, domain |-> 0]

\* what undefined behaviour that overruns the frame or the allocation does
UbOutcomes == {"continue", "crash"}

Raise(text, checked) ==
    [pc |-> "error", result |-> NoRecord, written |-> NoWritten,
     errtext |-> <<text>>, validated |-> checked]

Crash(checked) ==
    [pc |-> "crashed", result |-> NoRecord, written |-> NoWritten,
     errtext |-> <<>>, validated |-> checked]

\* lines 109-115: the two fields are cleared and filled by strcpy; the
\* record is 2 * MAX_CHARS bytes of fields, local at 0 and domain at MAX_CHARS
StoreRecord(local, domain, jk, ub) ==
    LET size == Max(2 * MAX_CHARS, Max(Len(local) + 1, MAX_CHARS + Len(domain) + 1))
        r0 == [k \in 0 .. size - 1 |-> IF k < 2 * MAX_CHARS THEN NUL ELSE jk]
        r1 == strcpy(r0, 0, local)
        r2 == strcpy(r1, MAX_CHARS, domain)
    IN IF size > 2 * MAX_CHARS /\ ub = "crash" THEN Crash(<<local>>)
       ELSE [pc |-> "returned",
             result |-> [local |-> CStr(r2, 0), domain |-> CStr(r2, MAX_CHARS)],
             written |-> [local |-> Len(local) + 1, domain |-> Len(domain) + 1],
             errtext |-> <<>>, validated |-> <<local>>]

\* lines 91-107: the arrays local[i] and domain[i - (at_pos + 1)] on the
\* stack, domain below local, filled by memcpy and terminated at [i - 1]
CopyAndCheck(s, len, at_pos, i, slack, jk, ub) ==
    LET RL == VlaReserve(at_pos, slack)
        RD == VlaReserve(i - (at_pos + 1), slack)
        top == RD + RL
        size == Max(top, i)
        m0 == [k \in 0 .. size - 1 |-> jk]
        m1 == [k \in 0 .. size - 1 |->
                 IF RD <= k /\ k < RD + at_pos - 1 THEN s[k - RD + 1]
                 ELSE IF k = RD + at_pos - 1 THEN NUL
                 ELSE m0[k]]
        m2 == [k \in 0 .. size - 1 |->
                 IF k < i - 1 THEN SrcByte(s, at_pos + k, jk) ELSE m1[k]]
        m3 == [m2 EXCEPT ![i - 1] = NUL]
        local == CStr(m3, RD)
        domain == CStr(m3, 0)
    IN IF i > top /\ ub = "crash" THEN Crash(<<>>)
       ELSE IF ~checkLocalIsValid(local) THEN Raise(local, <<local>>)
       ELSE StoreRecord(local, domain, jk, ub)

email_in_run(s, slack, jk, ub) ==
    LET str_len == Len(s)
        i == getLocalStringEnd(s, str_len)
    IN IF i = 0 THEN Raise(s, <<>>)
       ELSE LET at_pos == i
                i2 == getDomainStringEnd(i, s, str_len)
            IN IF i2 = 0 THEN Raise(s, <<>>)
               ELSE CopyAndCheck(s, str_len, at_pos, i2, slack, jk, ub)

email_in ==
    /\ pc = "call"
    /\ \E ub \in UbOutcomes :
         LET r == email_in_run(str, vlaSlack, junk, ub)
         IN /\ pc' = r.pc
            /\ result' = r.result
            /\ written' = r.written
            /\ errtext' = r.errtext
            /\ validated' = r.validated
    /\ UNCHANGED <<vlaSlack, junk, str, out, charVars, cmpVars>>

----------------------------------------------------------------------------
(* email_out *)

Take(s, n) == IF Len(s) <= n THEN s ELSE SubSeq(s, 1, n)

\* snprintf(result, 256, "%s@%s", local, domain)
Render(e) == Take(e.local \o <<AT>> \o e.domain, 2 * MAX_CHARS - 1)

email_out ==
    /\ pc = "returned"
    /\ out' = Render(result)
    /\ pc' = "rendered"
    /\ UNCHANGED <<vlaSlack, junk, str, result, written, errtext, validated,
                   charVars, cmpVars>>

----------------------------------------------------------------------------
(* The text interface: one email_in call on each input, then email_out *)

IdleChar == [ch |-> NUL, verdict |-> <<>>]
IdleCmp == [a |-> NoRecord, b |-> NoRecord, c |-> NoRecord,
            ret |-> [fn |-> "none", bool |-> FALSE, int |-> 0]]

Init ==
    /\ vlaSlack \in VlaSlacks
    /\ junk \in JunkBytes
    /\ str \in Inputs
    /\ pc = "call"
    /\ result = NoRecord
    /\ written = NoWritten
    /\ errtext = <<>>
    /\ validated = <<>>
    /\ out = <<>>
    /\ ch = IdleChar.ch /\ verdict = IdleChar.verdict
    /\ a = IdleCmp.a /\ b = IdleCmp.b /\ c = IdleCmp.c /\ ret = IdleCmp.ret

Next == email_in \/ email_out

Spec == Init /\ [][Next]_vars

----------------------------------------------------------------------------
(* isValidCharacter called on every value a char can hold *)

isValidCharacterCall ==
    /\ verdict = <<>>
    /\ verdict' = <<isValidCharacter(ch)>>
    /\ UNCHANGED <<ch, parseVars, cmpVars>>

InitChar ==
    /\ ch \in CharValues
    /\ verdict = <<>>
    /\ vlaSlack = 0 /\ junk = NUL /\ pc = "idle" /\ str = <<>>
    /\ result = NoRecord /\ written = NoWritten
    /\ errtext = <<>> /\ validated = <<>> /\ out = <<>>
    /\ a = IdleCmp.a /\ b = IdleCmp.b /\ c = IdleCmp.c /\ ret = IdleCmp.ret

NextChar == isValidCharacterCall

SpecChar == InitChar /\ [][NextChar]_vars

----------------------------------------------------------------------------
(* Comparator *)

tolower(x) == IF 65 <= x /\ x <= 90 THEN x + 32 ELSE x

\* strcasecmp from index k: the difference of the first two folded bytes
\* that differ, the terminator counting as a byte
RECURSIVE strcasecmpFrom(_, _, _)
strcasecmpFrom(s, t, k) ==
    LET x == IF k <= Len(s) THEN tolower(s[k]) ELSE NUL
        y == IF k <= Len(t) THEN tolower(t[k]) ELSE NUL
    IN IF x # y THEN x - y
       ELSE IF x = NUL THEN 0
       ELSE strcasecmpFrom(s, t, k + 1)

strcasecmp(s, t) == strcasecmpFrom(s, t, 1)

\* mutant: the locals compared before the domains
email_cmp_internal_localfirst(x, y) ==
    IF strcasecmp(x.local, y.local) < 0 THEN -1
    ELSE IF strcasecmp(x.local, y.local) > 0 THEN 1
    ELSE IF strcasecmp(x.local, y.local) = 0
         THEN IF strcasecmp(x.domain, y.domain) < 0 THEN -1
              ELSE IF strcasecmp(x.domain, y.domain) > 0 THEN 1
              ELSE 0
    ELSE 0

\* mutant: the second test on the locals repeats the first
email_cmp_internal_dup(x, y) ==
    IF strcasecmp(x.domain, y.domain) < 0 THEN -1
    ELSE IF strcasecmp(x.domain, y.domain) > 0 THEN 1
    ELSE IF strcasecmp(x.domain, y.domain) = 0
         THEN IF strcasecmp(x.local, y.local) < 0 THEN -1
              ELSE IF strcasecmp(x.local, y.local) < 0 THEN 1
              ELSE 0
    ELSE 0

email_cmp_internal(x, y) ==
    IF strcasecmp(x.domain, y.domain) < 0 THEN -1
    ELSE IF strcasecmp(x.domain, y.domain) > 0 THEN 1
    ELSE IF strcasecmp(x.domain, y.domain) = 0
         THEN IF strcasecmp(x.local, y.local) < 0 THEN -1
              ELSE IF strcasecmp(x.local, y.local) > 0 THEN 1
              ELSE 0
    ELSE 0

\* mutant: the domains compared with strcmp, case-sensitively
domain_cmp_internal_case(x, y) ==
    IF x.domain = y.domain THEN 0
    ELSE IF strcasecmp(x.domain, y.domain) < 0 THEN -1
    ELSE 1

domain_cmp_internal(x, y) ==
    IF strcasecmp(x.domain, y.domain) < 0 THEN -1
    ELSE IF strcasecmp(x.domain, y.domain) > 0 THEN 1
    ELSE 0

\* the values the SQL-callable functions return
email_lt(x, y) == email_cmp_internal(x, y) < 0
\* mutant: <= written as <
email_le_strict(x, y) == email_cmp_internal(x, y) < 0

email_le(x, y) == email_cmp_internal(x, y) <= 0
email_eq(x, y) == email_cmp_internal(x, y) = 0
email_ge(x, y) == email_cmp_internal(x, y) >= 0
email_gt(x, y) == email_cmp_internal(x, y) > 0
email_cmp(x, y) == email_cmp_internal(x, y)
email_ne(x, y) == email_cmp_internal(x, y) # 0
email_de(x, y) == domain_cmp_internal(x, y) = 0
email_dne(x, y) == domain_cmp_internal(x, y) # 0

ReturnBool(fn, v) ==
    /\ ret' = [fn |-> fn, bool |-> v, int |-> 0]
    /\ UNCHANGED <<a, b, c, parseVars, charVars>>

ReturnInt32(fn, v) ==
    /\ ret' = [fn |-> fn, bool |-> FALSE, int |-> v]
    /\ UNCHANGED <<a, b, c, parseVars, charVars>>

\* the host calls each function on the pair (a, b)
Call_email_lt == ReturnBool("email_lt", email_lt(a, b))
Call_email_le == ReturnBool("email_le", email_le(a, b))
Call_email_eq == ReturnBool("email_eq", email_eq(a, b))
Call_email_ge == ReturnBool("email_ge", email_ge(a, b))
Call_email_gt == ReturnBool("email_gt", email_gt(a, b))
Call_email_cmp == ReturnInt32("email_cmp", email_cmp(a, b))
Call_email_ne == ReturnBool("email_ne", email_ne(a, b))
Call_email_de == ReturnBool("email_de", email_de(a, b))
Call_email_dne == ReturnBool("email_dne", email_dne(a, b))

\* "a", "A", "b", "ab"
Names == {<<97>>, <<65>>, <<98>>, <<97, 98>>}

Records == [local : Names, domain : Names]

InitCmp ==
    /\ a \in Records /\ b \in Records /\ c \in Records
    /\ ret = IdleCmp.ret
    /\ vlaSlack = 0 /\ junk = NUL /\ pc = "idle" /\ str = <<>>
    /\ result = NoRecord /\ written = NoWritten
    /\ errtext = <<>> /\ validated = <<>> /\ out = <<>>
    /\ ch = IdleChar.ch /\ verdict = <<>>

NextCmp ==
    \/ Call_email_lt \/ Call_email_le \/ Call_email_eq \/ Call_email_ge
    \/ Call_email_gt \/ Call_email_cmp \/ Call_email_ne
    \/ Call_email_de \/ Call_email_dne

SpecCmp == InitCmp /\ [][NextCmp]_vars

----------------------------------------------------------------------------
(* Vocabulary of the properties *)

Returned == pc \in {"returned", "rendered"}
Called == pc \in {"returned", "rendered", "error", "crashed"}

\* the alphabet of section 4.1: '.', '-', 0-9, A-Z, a-z
InAlphabet(x) == x \in ({45, 46} \cup (48 .. 57) \cup (65 .. 90) \cup (97 .. 122))

HasAt(s) == \E k \in 1 .. Len(s) : s[k] = AT
FirstAt(s) == CHOOSE k \in 1 .. Len(s) : s[k] = AT /\ \A j \in 1 .. (k - 1) : s[j] # AT

\* the bytes before the first '@' and the bytes after it
LocalPart(s) == IF HasAt(s) THEN SubSeq(s, 1, FirstAt(s) - 1) ELSE s
DomainPart(s) == IF HasAt(s) THEN SubSeq(s, FirstAt(s) + 1, Len(s)) ELSE <<>>

AllIn(s) == \A k \in 1 .. Len(s) : InAlphabet(s[k])

\* equality of two strings up to the case of their letters
Upper(x) == IF 97 <= x /\ x <= 122 THEN x - 32 ELSE x
SameUpToCase(s, t) == Len(s) = Len(t) /\ \A k \in 1 .. Len(s) : Upper(s[k]) = Upper(t[k])

----------------------------------------------------------------------------
(* C1 *)

\* C1: for every input email_in accepts, email_out of the record is the
\* input byte for byte: local is the bytes before the first '@', domain
\* the bytes after it.
C1_RoundTrip ==
    /\ Returned => result = [local |-> LocalPart(str), domain |-> DomainPart(str)]
    /\ pc = "rendered" => out = str

----------------------------------------------------------------------------
(* C2 *)

\* C2: on a non-empty input without any '@' the local scan returns 0 and
\* email_in raises the invalid-syntax error instead of building a record.
C2_NoSeparatorRejected ==
    (Called /\ str # <<>> /\ ~HasAt(str)) =>
        (getLocalStringEnd(str, Len(str)) = 0 /\ pc = "error")

----------------------------------------------------------------------------
(* C3 *)

\* C3: a record email_in returns has a non-empty local and a non-empty
\* domain, both over the alphabet '.', '-', 0-9, A-Z, a-z (so without '@');
\* an input that starts with '@', has nothing after its first '@', has a
\* second '@' or has a byte outside the alphabet is rejected.
C3_RecordWellFormed ==
    /\ Returned =>
        /\ result.local # <<>> /\ AllIn(result.local)
        /\ result.domain # <<>> /\ AllIn(result.domain)
    /\ (Called /\ HasAt(str) /\
            (LocalPart(str) = <<>> \/ DomainPart(str) = <<>>
                \/ ~AllIn(LocalPart(str)) \/ ~AllIn(DomainPart(str))))
        => pc = "error"

----------------------------------------------------------------------------
(* C4 *)

\* C4: email_cmp_internal is a consistent three-way order: its result is
\* -1, 0 or 1; compare(a,b) = -compare(b,a); compare(a,a) = 0; equality and
\* "less than" are transitive; email_cmp returns that same value.
C4_ConsistentOrder ==
    /\ \A x \in {a, b, c} : \A y \in {a, b, c} :
          /\ email_cmp_internal(x, y) \in {-1, 0, 1}
          /\ email_cmp_internal(x, y) = -email_cmp_internal(y, x)
    /\ \A x \in {a, b, c} : email_cmp_internal(x, x) = 0
    /\ (email_cmp_internal(a, b) = 0 /\ email_cmp_internal(b, c) = 0)
          => email_cmp_internal(a, c) = 0
    /\ (email_cmp_internal(a, b) < 0 /\ email_cmp_internal(b, c) < 0)
          => email_cmp_internal(a, c) < 0
    /\ ret.fn = "email_cmp" => ret.int = email_cmp_internal(a, b)

\* email_cmp has answered on a chain a < b < c decided once by the domains
\* and once by the locals
C4_Witness ==
    /\ ret.fn = "email_cmp" /\ ret.int = -1
    /\ a.domain = b.domain /\ a.local # b.local
    /\ b.domain # c.domain /\ email_cmp_internal(b, c) = -1

----------------------------------------------------------------------------
(* C5 *)

\* C5: the six relational predicates never disagree: exactly one of a<b,
\* a=b, a>b holds; a<=b iff not a>b; a>=b iff not a<b; a<>b iff not a=b;
\* a<b iff b>a; and each returns the matching test on the sign of email_cmp.
C5_PredicatesAgree ==
    /\ Cardinality({p \in {"lt", "eq", "gt"} :
            \/ p = "lt" /\ email_lt(a, b)
            \/ p = "eq" /\ email_eq(a, b)
            \/ p = "gt" /\ email_gt(a, b)}) = 1
    /\ email_le(a, b) <=> ~email_gt(a, b)
    /\ email_ge(a, b) <=> ~email_lt(a, b)
    /\ email_ne(a, b) <=> ~email_eq(a, b)
    /\ email_lt(a, b) <=> email_gt(b, a)
    /\ ret.fn = "email_lt" => (ret.bool <=> email_cmp(a, b) < 0)
    /\ ret.fn = "email_le" => (ret.bool <=> email_cmp(a, b) <= 0)
    /\ ret.fn = "email_eq" => (ret.bool <=> email_cmp(a, b) = 0)
    /\ ret.fn = "email_ne" => (ret.bool <=> email_cmp(a, b) # 0)
    /\ ret.fn = "email_ge" => (ret.bool <=> email_cmp(a, b) >= 0)
    /\ ret.fn = "email_gt" => (ret.bool <=> email_cmp(a, b) > 0)

\* email_le has answered true on two records that differ only in case
C5_Witness ==
    /\ ret.fn = "email_le" /\ ret.bool
    /\ a # b /\ email_cmp(a, b) = 0

----------------------------------------------------------------------------
(* C6 *)

\* C6 as stated: isValidCharacter returns true exactly on '.', '-', 0-9,
\* A-Z and a-z, and rejects every other value, '@' included.
C6_ClassifierAlphabet ==
    verdict # <<>> => (verdict[1] <=> InAlphabet(ch))

\* C6 as amended: isValidCharacter returns true exactly on '.', '-', 0-9,
\* '@', A-Z and a-z, and rejects every other value.
C6_ClassifierAlphabetAndAt ==
    verdict # <<>> => (verdict[1] <=> (InAlphabet(ch) \/ ch = AT))

\* the classifier has answered on '@'
C6_Witness == ch = AT /\ verdict = <<TRUE>>

----------------------------------------------------------------------------
(* C7 *)

\* C7 as stated: checkLocalIsValid accepts a local part only if its first
\* character is an uppercase letter A-Z, and accepts every such local part.
C7_UppercaseInitial ==
    (Called /\ validated # <<>>) =>
        (pc # "error" <=>
            (validated[1] # <<>> /\ validated[1][1] \in 65 .. 90))

\* C7 as amended: checkLocalIsValid accepts the local string it is handed
\* if and only if its first character is a letter A-Z or a-z; any other
\* local string raises the invalid-syntax error.
C7_LetterInitial ==
    (Called /\ validated # <<>>) =>
        (pc # "error" <=>
            (validated[1] # <<>> /\
                validated[1][1] \in ((65 .. 90) \cup (97 .. 122))))

\* validation passed a local that begins with the lowercase letter 'b'
C7_Witness ==
    /\ pc = "returned"
    /\ validated # <<>> /\ validated[1] # <<>> /\ validated[1][1] = 98

----------------------------------------------------------------------------
(* C8 *)

\* C8: a stored field with its terminator never exceeds MAX_CHARS bytes,
\* and an input whose local or domain part is longer than MAX_CHARS - 1
\* characters is rejected rather than stored truncated or spilling.
C8_FieldsWithinCapacity ==
    /\ Returned => (written.local <= MAX_CHARS /\ written.domain <= MAX_CHARS)
    /\ (Called /\ (Len(LocalPart(str)) > MAX_CHARS - 1
                    \/ Len(DomainPart(str)) > MAX_CHARS - 1))
        => pc = "error"

----------------------------------------------------------------------------
(* C9 *)

\* C9: domain_cmp_internal looks at the domains only: it is 0 whenever the
\* domains are equal up to case, whatever the locals; a = b implies a ~ b;
\* email_de is true iff domain_cmp_internal is 0 and email_dne iff it is not.
C9_DomainOnly ==
    /\ SameUpToCase(a.domain, b.domain) => domain_cmp_internal(a, b) = 0
    /\ domain_cmp_internal(a, b) =
          domain_cmp_internal([a EXCEPT !.local = c.local],
                              [b EXCEPT !.local = c.domain])
    /\ email_eq(a, b) => email_de(a, b)
    /\ email_de(a, b) <=> ~email_dne(a, b)
    /\ ret.fn = "email_de" => (ret.bool <=> domain_cmp_internal(a, b) = 0)
    /\ ret.fn = "email_dne" => (ret.bool <=> domain_cmp_internal(a, b) # 0)

\* email_de has answered true on records whose domains differ in case and
\* whose locals differ
C9_Witness ==
    /\ ret.fn = "email_de" /\ ret.bool
    /\ a.domain # b.domain
    /\ ~SameUpToCase(a.local, b.local)

----------------------------------------------------------------------------
(* C10 *)

\* C10: every failure of email_in returns no record and raises the error
\* with the complete input string as its text.
C10_ErrorCarriesInput ==
    pc = "error" => (result = NoRecord /\ errtext = <<str>>)

----------------------------------------------------------------------------
(* C11 *)

\* byte k of s with its letters folded to lower case, 0 past the end
FoldedAt(s, k) ==
    IF k > Len(s) THEN 0
    ELSE IF s[k] \in 65 .. 90 THEN s[k] + 32 ELSE s[k]

\* sign of the lexicographic comparison of the case-folded strings
FoldedSign(s, t) ==
    LET diffs == {k \in 1 .. Max(Len(s), Len(t)) : FoldedAt(s, k) # FoldedAt(t, k)}
    IN IF diffs = {} THEN 0
       ELSE IF FoldedAt(s, Min(diffs)) < FoldedAt(t, Min(diffs)) THEN -1 ELSE 1

\* C11: email_cmp_internal orders by domain first and ignores case: when
\* the folded domains differ the result is the sign of their comparison,
\* whatever the locals; when they are equal it is the sign of the folded
\* local comparison; records that differ only in letter case compare 0.
C11_DomainFirstFolded ==
    /\ \A x \in {a, b, c} : \A y \in {a, b, c} :
          /\ FoldedSign(x.domain, y.domain) # 0
                => email_cmp_internal(x, y) = FoldedSign(x.domain, y.domain)
          /\ FoldedSign(x.domain, y.domain) = 0
                => email_cmp_internal(x, y) = FoldedSign(x.local, y.local)
          /\ (SameUpToCase(x.domain, y.domain) /\ SameUpToCase(x.local, y.local))
                => email_cmp_internal(x, y) = 0
    /\ ret.fn = "email_cmp" =>
          ret.int = IF FoldedSign(a.domain, b.domain) # 0
                    THEN FoldedSign(a.domain, b.domain)
                    ELSE FoldedSign(a.local, b.local)

\* email_cmp has answered -1 on a and b because of their domains although
\* the locals are ordered the other way, and a and c differ only in the
\* case of the domain
C11_Witness ==
    /\ ret.fn = "email_cmp" /\ ret.int = -1
    /\ FoldedSign(a.domain, b.domain) = -1
    /\ FoldedSign(a.local, b.local) = 1
    /\ a.local = c.local /\ a.domain # c.domain
    /\ email_cmp_internal(a, c) = 0

====
